---- MODULE Spec2Model ----
(***************************************************************************)
(* A model of FileBasedStream (airbyte_cdk/sources/file_based):            *)
(*   - schema discovery: get_json_schema, list_files, the bounded          *)
(*     asyncio loop of _infer_schema and the per-file tasks it creates;    *)
(*   - record extraction: read_records over list_files_for_this_sync.      *)
(* Spec is a discovery session on one stream object, SpecRead a read       *)
(* (sync) on one stream object, SpecNew the construction of a stream       *)
(* followed by discovery, SpecLive discovery under fair scheduling, and    *)
(* SpecMerge the schema merge on its own.                                  *)
(* SpecSteps models the step runners of pipelines/helpers/steps.py.        *)
(***************************************************************************)
EXTENDS Integers, Sequences, FiniteSets, TLC

(***************************************************************************)
(* Bounds of the model.                                                    *)
(***************************************************************************)
\* the largest number of files the reader lists for the stream's globs
MaxFiles == 3
\* last_modified instants are 1..MaxTime
MaxTime == 2
\* discovery_policy.max_n_files_for_schema_inference ranges over 1..MaxSample
MaxSample == 3
\* discovery_policy.n_concurrent_requests ranges over 1..MaxConcurrent
MaxConcurrent == 2
\* the largest number of files the reader lists for one sync
MaxSyncFiles == 2
\* the largest number of raw records a parser emits for one file
MaxRecords == 2
\* the largest number of groups in the list a step runner is given
MaxGroups == 2
\* the largest number of steps in one sublist
MaxGroupSize == 2

(***************************************************************************)
(* Values.  Python's None and an optional value are records of one shape.  *)
(***************************************************************************)
NoneVal == [kind |-> "none"]
Some(v) == [kind |-> "some", val |-> v]

\* Python truthiness of an Optional[dict]: None and the empty dict are falsy.
Truthy(x) == x.kind = "some" /\ DOMAIN x.val # {}

\* A field-type descriptor: a bare primitive tag, or a union of tags.
Tag(t) == [kind |-> "tag", tags |-> {t}]
Union(S) == [kind |-> "union", tags |-> S]

\* The canonical descriptor of a set of tags: one tag is stored bare.
Canon(S) == IF Cardinality(S) = 1 THEN [kind |-> "tag", tags |-> S] ELSE Union(S)

\* The empty schema, Python's {}.
EmptySchema == <<>>

\* A merge that is a dict update, {**a, **b}: a field of both operands keeps
\* the descriptor of the second.
merge_schemas_update(a, b) ==
    [f \in (DOMAIN a) \cup (DOMAIN b) |-> IF f \in DOMAIN b THEN b[f] ELSE a[f]]

\* schema_helpers.merge_schemas: fields of one operand are copied, a field of
\* both operands gets the union of the two descriptors' tags.
merge_schemas(a, b) ==
    [f \in (DOMAIN a) \cup (DOMAIN b) |->
        IF f \in DOMAIN a /\ f \in DOMAIN b
        THEN Canon(a[f].tags \cup b[f].tags)
        ELSE IF f \in DOMAIN a THEN a[f] ELSE b[f]]

\* schema_helpers.type_mapping_to_jsonschema: a declared mapping from field
\* name to type name becomes a schema of bare tags.
type_mapping_to_jsonschema(m) == [f \in DOMAIN m |-> Tag(m[f])]

(***************************************************************************)
(* The inputs of a discovery session.                                      *)
(***************************************************************************)
\* config.input_schema: absent, declared but empty, or a declared mapping
InputSchemas ==
    { NoneVal, Some(<<>>), Some([a |-> "string"]),
      Some([a |-> "integer", b |-> "boolean"]) }

\* What the parser's infer_schema may do for a file: return a schema, or
\* raise.  The parser is outside the stream: a task's outcome is drawn when
\* the coroutine reads it with task.result().
Inferred(s) == [ok |-> TRUE, schema |-> s]
InferFails == [ok |-> FALSE, schema |-> EmptySchema]
InferOutcomes ==
    { Inferred([a |-> Tag("string")]), Inferred([a |-> Tag("integer")]),
      Inferred([b |-> Tag("boolean")]), InferFails }

\* A RemoteFile as listed: its uri is its place in the listing.
RemoteFile(i, t) == [uri |-> i, last_modified |-> t]

\* A listing stream_reader.list_matching_files(globs) may return: n files,
\* the i-th modified at m[i].
Catalog(n, m) == [i \in 1..n |-> RemoteFile(i, m[i])]

(***************************************************************************)
(* The inputs of a sync.                                                   *)
(***************************************************************************)
\* A raw record as the parser emits it: the idx-th record of file uri, whose
\* field x holds a value of type x.
RawRecord(u, j, x) == [uri |-> u, idx |-> j, x |-> x]

\* The types of x in the records of one file, in the parser's order.
RecordTypes == UNION { [1..k -> {"string", "integer"}] : k \in 0..MaxRecords }

\* A file of the reader's store, with the records its parser will emit.
StoredFile(i, t, xs) ==
    [uri |-> i, last_modified |-> t,
     records |-> [j \in 1..Len(xs) |-> RawRecord(i, j, xs[j])]]

\* A store a sync may find: n files matching the globs, in listing order,
\* the i-th modified at m[i][1] and holding records of types m[i][2].
SyncStore(n, m) == [i \in 1..n |-> StoredFile(i, m[i][1], m[i][2])]
SyncStoreShapes(n) == [1..n -> (1..MaxTime) \X RecordTypes]

\* stream_state as read_records receives it: no cursor, or a cursor instant.
StreamStates == { NoneVal } \cup { Some(t) : t \in 1..MaxTime }

\* record_passes_validation_policy: the permissive policy accepts every
\* record, the strict one only a record that conforms to the schema (here:
\* whose x is a string).
record_passes_validation_policy(policy, record, schema) ==
    policy = "permissive" \/ record.x = "string"

\* stream_reader.list_matching_files(globs, start): the matching files, and
\* with a start instant those modified at or after it only.
list_matching_files(store, start) ==
    IF start.kind = "none" THEN store
    ELSE SelectSeq(store, LAMBDA f : f.last_modified >= start.val)

VARIABLES
    input_schema,           \* self.config.input_schema
    max_n_files,            \* _discovery_policy.max_n_files_for_schema_inference
    n_concurrent_requests,  \* _discovery_policy.n_concurrent_requests
    list_files_cache,       \* @cache of list_files
    schema_cache,           \* @cache of get_json_schema
    n_list,                 \* stream_reader.list_matching_files calls made by list_files
    pc,                     \* "idle" | "loop" (at the while test) | "wait" (suspended in asyncio.wait)
    files,                  \* _infer_schema: the files handed to inference
    n_started,              \* _infer_schema: n_started (also the iterator's position)
    pending_tasks,          \* _infer_schema: pending_tasks; a task is named by its file's uri
    base_schema,            \* _infer_schema: base_schema
    running,                \* tasks of the current call that have not finished
    finished,               \* tasks of pending_tasks that finished and that
                            \* asyncio.wait has not handed over yet
    leaked,                 \* history: the tasks the last call that ended left
                            \* pending in the event loop (no later call reads them)
    outcome,                \* how the last get_json_schema call ended
    last_call,              \* which path it took: "none" | "cache" | "declared" | "inferred"
    started,                \* history: the uris a per-file inference was started for
    failed,                 \* history: the tasks of the current call read as failed
    produced,               \* history: the per-file schemas folded by the current call
    submitted,              \* history: the uris the current call created a task for, in order
    folded                  \* history: how many times the current call folded each task's result

VARIABLES
    validation_policy,      \* self.config.validation_policy
    catalog_schema,         \* self._catalog_schema
    remote,                 \* the files the reader finds for the stream's globs
    stream_state,           \* read_records: the stream_state argument
    rd_pc,                  \* the generator read_records returned: "idle" (none yet) |
                            \* "open" (not started) | "yielded" | "exhausted" | "raised"
    rd_files,               \* read_records: the files of list_files_for_this_sync
    rd_file,                \* read_records: the place in rd_files of the file being parsed
    rd_rec,                 \* read_records: the place of the last record taken from its parser
    out,                    \* the records yielded so far
    n_warnings,             \* logging.warning calls made so far
    rd_error                \* the exception the generator raised, or "none"

readVars ==
    << validation_policy, catalog_schema, remote, stream_state, rd_pc, rd_files,
       rd_file, rd_rec, out, n_warnings, rd_error >>

discoveryVars ==
    << input_schema, max_n_files, n_concurrent_requests, list_files_cache,
       schema_cache, n_list, pc, files, n_started, pending_tasks, base_schema,
       running, finished, leaked, outcome, last_call, started, failed, produced,
       submitted, folded >>

VARIABLES
    raw_config,             \* __init__: the raw_config argument
    ctor_pc,                \* "new" (before __init__) | "constructed" | "raised"
    ctor_error,             \* the exception __init__ raised, or "none"
    reader_attached,        \* self._stream_reader was assigned
    policy_attached         \* self._discovery_policy was assigned

ctorVars == << raw_config, ctor_pc, ctor_error, reader_attached, policy_attached >>

VARIABLES
    mg_pc,                  \* "in" (operands chosen) | "done" (merges computed)
    mg_a, mg_b, mg_c,       \* three schemas
    mg_ab, mg_ba,           \* merge_schemas(a, b), merge_schemas(b, a)
    mg_ab_c, mg_a_bc,       \* merge_schemas(merge_schemas(a, b), c), merge_schemas(a, merge_schemas(b, c))
    mg_aa                   \* merge_schemas(a, a)

mergeVars == << mg_pc, mg_a, mg_b, mg_c, mg_ab, mg_ba, mg_ab_c, mg_a_bc, mg_aa >>

VARIABLES
    st_runner,              \* "new_run_steps" | "run_steps"
    st_input,               \* the runnables the caller passed, as groups
    st_fail_fast,           \* new_run_steps: fail_fast
    st_skip_steps,          \* context.skip_steps
    st_pc,                  \* "idle" | "call" (entering a call of the recursion) |
                            \* "group" (in the exit of the task group) | "returned" | "raised"
    st_remaining,           \* the runnables argument of the current call: the place in
                            \* st_input of its first group
    st_initial,             \* the results argument of the first call
    st_results,             \* the results argument of the current call
    st_tasks,               \* the tasks of the task group, by place in steps_to_run
    st_ran,                 \* history: the ids whose step.run was invoked
    st_done,                \* history: the ids whose task has finished
    st_values,              \* history: the value each finished task returned
    st_error                \* the exception the runner raised, or "none"

stepVars ==
    << st_runner, st_input, st_fail_fast, st_skip_steps, st_pc, st_remaining,
       st_initial, st_results, st_tasks, st_ran, st_done, st_values, st_error >>

vars == << discoveryVars, readVars, ctorVars, mergeVars, stepVars >>

NoOutcome == [kind |-> "none", schema |-> EmptySchema, uri |-> 0]
Returned(s) == [kind |-> "returned", schema |-> s, uri |-> 0]
Raised(e, u) == [kind |-> e, schema |-> EmptySchema, uri |-> u]

\* __init__, lines 47-49: the stream as constructed, before any call.
FreshStream ==
    /\ catalog_schema = Some(EmptySchema)
    /\ remote = <<>>
    /\ stream_state = NoneVal
    /\ rd_pc = "idle"
    /\ rd_files = <<>>
    /\ rd_file = 0
    /\ rd_rec = 0
    /\ out = <<>>
    /\ n_warnings = 0
    /\ rd_error = "none"
    /\ list_files_cache = NoneVal
    /\ schema_cache = NoneVal
    /\ n_list = 0
    /\ pc = "idle"
    /\ files = <<>>
    /\ n_started = 0
    /\ pending_tasks = {}
    /\ base_schema = EmptySchema
    /\ running = {}
    /\ finished = {}
    /\ leaked = {}
    /\ outcome = NoOutcome
    /\ last_call = "none"
    /\ started = {}
    /\ failed = {}
    /\ produced = {}
    /\ submitted = <<>>
    /\ folded = <<>>

\* The raw configuration of a stream: its file type and its declared schema.
RawConfig(ft, schema) == [file_type |-> ft, input_schema |-> schema]

\* __init__ has returned: the configuration was accepted, lines 47-49 ran.
Constructed ==
    /\ raw_config = RawConfig("csv", input_schema)
    /\ ctor_pc = "constructed"
    /\ ctor_error = "none"
    /\ reader_attached = TRUE
    /\ policy_attached = TRUE

\* No merge is being computed.
NoMerge ==
    /\ mg_pc = "idle"
    /\ mg_a = EmptySchema
    /\ mg_b = EmptySchema
    /\ mg_c = EmptySchema
    /\ mg_ab = EmptySchema
    /\ mg_ba = EmptySchema
    /\ mg_ab_c = EmptySchema
    /\ mg_a_bc = EmptySchema
    /\ mg_aa = EmptySchema

\* No step runner was called.
NoSteps ==
    /\ st_runner = "new_run_steps"
    /\ st_input = <<>>
    /\ st_fail_fast = TRUE
    /\ st_skip_steps = {}
    /\ st_pc = "idle"
    /\ st_remaining = 1
    /\ st_initial = <<>>
    /\ st_results = <<>>
    /\ st_tasks = <<>>
    /\ st_ran = {}
    /\ st_done = {}
    /\ st_values = <<>>
    /\ st_error = "none"

\* A discovery session: any configuration and policy.
Init ==
    /\ input_schema \in InputSchemas
    /\ max_n_files \in 1..MaxSample
    /\ n_concurrent_requests \in 1..MaxConcurrent
    /\ validation_policy = "strict"
    /\ FreshStream
    /\ Constructed
    /\ NoMerge
    /\ NoSteps

(***************************************************************************)
(* get_json_schema and list_files.                                         *)
(***************************************************************************)
\* get_json_schema without its @cache decorator: nothing is ever found.
NoCachedSchema == NoneVal

\* @cache on get_json_schema: the value kept from an earlier call that returned.
CachedSchema == schema_cache

\* get_json_schema without its first branch: the declared schema is ignored.
UserSchemaIgnored == FALSE

\* `if self.config.input_schema:`
UserSchemaProvided == Truthy(input_schema)

\* sorted(files, key=lambda x: x.last_modified) without reverse=True: the
\* oldest files come first.
RECURSIVE InsertLeastRecentFirst(_, _)
InsertLeastRecentFirst(x, s) ==
    IF s = <<>> THEN <<x>>
    ELSE IF Head(s).last_modified <= x.last_modified
         THEN <<Head(s)>> \o InsertLeastRecentFirst(x, Tail(s))
         ELSE <<x>> \o s

RECURSIVE SortedLeastRecentFirst(_)
SortedLeastRecentFirst(fs) ==
    IF fs = <<>> THEN <<>>
    ELSE InsertLeastRecentFirst(fs[Len(fs)], SortedLeastRecentFirst(SubSeq(fs, 1, Len(fs) - 1)))

\* Python's sorted(files, key=lambda x: x.last_modified, reverse=True) is a
\* stable sort: files of equal last_modified keep their listing order.
\* InsertMostRecentFirst puts x behind every file at least as recent; the
\* files are inserted in listing order.
RECURSIVE InsertMostRecentFirst(_, _)
InsertMostRecentFirst(x, s) ==
    IF s = <<>> THEN <<x>>
    ELSE IF Head(s).last_modified >= x.last_modified
         THEN <<Head(s)>> \o InsertMostRecentFirst(x, Tail(s))
         ELSE <<x>> \o s

RECURSIVE SortedMostRecentFirst(_)
SortedMostRecentFirst(fs) ==
    IF fs = <<>> THEN <<>>
    ELSE InsertMostRecentFirst(fs[Len(fs)], SortedMostRecentFirst(SubSeq(fs, 1, Len(fs) - 1)))

\* get_json_schema, lines 98-101: the files handed to infer_schema.
SampleFiles(fs) ==
    IF Len(fs) > max_n_files
    THEN SubSeq(SortedMostRecentFirst(fs), 1, max_n_files)
    ELSE fs

\* One call of get_json_schema, up to its return or, when it infers, up to
\* the while test of _infer_schema (run by loop.run_until_complete).
GetJsonSchema ==
    /\ pc = "idle"
    /\ IF CachedSchema.kind = "some"
       THEN \* the cached value is returned, the body does not run
            /\ outcome' = Returned(CachedSchema.val)
            /\ last_call' = "cache"
            /\ UNCHANGED << schema_cache, list_files_cache, n_list, pc, files,
                            n_started, pending_tasks, base_schema, failed, produced, leaked,
                            submitted, folded >>
       ELSE IF UserSchemaProvided
       THEN /\ outcome' = Returned(type_mapping_to_jsonschema(input_schema.val))
            /\ schema_cache' = Some(type_mapping_to_jsonschema(input_schema.val))
            /\ last_call' = "declared"
            /\ UNCHANGED << list_files_cache, n_list, pc, files,
                            n_started, pending_tasks, base_schema, failed, produced, leaked,
                            submitted, folded >>
       ELSE \* files = self.list_files(), itself cached
            /\ IF list_files_cache.kind = "some"
               THEN UNCHANGED << list_files_cache, n_list >>
               ELSE /\ \E n \in 0..MaxFiles : \E m \in [1..n -> 1..MaxTime] :
                        list_files_cache' = Some(Catalog(n, m))
                    /\ n_list' = n_list + 1
            \* infer_schema(files): _infer_schema runs up to its while test
            /\ files' = SampleFiles(list_files_cache'.val)
            /\ base_schema' = EmptySchema
            /\ pending_tasks' = {}
            /\ n_started' = 0
            /\ pc' = "loop"
            /\ outcome' = NoOutcome
            /\ last_call' = "inferred"
            /\ failed' = {}
            /\ produced' = {}
            /\ leaked' = {}
            /\ submitted' = <<>>
            /\ folded' = <<>>
            /\ UNCHANGED schema_cache
    /\ UNCHANGED << input_schema, max_n_files, n_concurrent_requests,
                    running, finished, started >>
    /\ UNCHANGED << readVars, ctorVars, mergeVars, stepVars >>

(***************************************************************************)
(* _infer_schema.  The coroutine runs without interruption between two     *)
(* awaits; the tasks it created run while it is suspended in asyncio.wait. *)
(***************************************************************************)
\* A launch test that leaves two places of the cap unused.
MayLaunchBelowCap(pending) == Cardinality(pending) < n_concurrent_requests - 1

\* `len(pending_tasks) <= self._discovery_policy.n_concurrent_requests`
MayLaunch(pending) == Cardinality(pending) <= n_concurrent_requests

\* An inner while that creates two tasks for each file it takes.
RECURSIVE TopUpTwice(_, _)
TopUpTwice(pending, n) ==
    IF MayLaunch(pending) /\ n < Len(files)
    THEN LET t == TopUpTwice(pending \cup { files[n + 1].uri }, n + 1) IN
            [t EXCEPT !.launched = << files[n + 1].uri, files[n + 1].uri >> \o @]
    ELSE [pending_tasks |-> pending, n_started |-> n, launched |-> <<>>]

\* The inner while: create tasks while MayLaunch and the iterator has a file.
\* `launched` is the uris of the files a task was created for, in order.
RECURSIVE TopUp(_, _)
TopUp(pending, n) ==
    IF MayLaunch(pending) /\ n < Len(files)
    THEN LET t == TopUp(pending \cup { files[n + 1].uri }, n + 1) IN
            [t EXCEPT !.launched = << files[n + 1].uri >> \o @]
    ELSE [pending_tasks |-> pending, n_started |-> n, launched |-> <<>>]

\* A while test that looks at the pending tasks only.
LoopConditionPendingOnly == pending_tasks # {}

\* `while pending_tasks or n_started < n_files`
LoopCondition == pending_tasks # {} \/ n_started < Len(files)

\* One pass from the while test to the await of asyncio.wait.
LoopEnter ==
    /\ pc = "loop"
    /\ LoopCondition
    /\ LET t == TopUp(pending_tasks, n_started) IN
        /\ pending_tasks' = t.pending_tasks
        /\ n_started' = t.n_started
        /\ running' = running \cup (t.pending_tasks \ pending_tasks)
        /\ started' = started \cup (t.pending_tasks \ pending_tasks)
        /\ submitted' = submitted \o t.launched
        /\ IF t.pending_tasks = {}
           THEN \* asyncio.wait raises ValueError on an empty set
                /\ pc' = "idle"
                /\ outcome' = Raised("ValueError", 0)
           ELSE /\ pc' = "wait"
                /\ UNCHANGED outcome
    /\ UNCHANGED << input_schema, max_n_files, n_concurrent_requests,
                    list_files_cache, schema_cache, n_list, files, base_schema,
                    finished, leaked, last_call, failed, produced, folded >>
    /\ UNCHANGED << readVars, ctorVars, mergeVars, stepVars >>

\* The while test fails: `return base_schema`, which get_json_schema returns
\* and its cache keeps.
LoopExit ==
    /\ pc = "loop"
    /\ ~LoopCondition
    /\ pc' = "idle"
    /\ outcome' = Returned(base_schema)
    /\ schema_cache' = Some(base_schema)
    /\ UNCHANGED << input_schema, max_n_files, n_concurrent_requests,
                    list_files_cache, n_list, files, n_started, pending_tasks,
                    base_schema, running, finished, leaked, last_call,
                    started, failed, produced, submitted, folded >>
    /\ UNCHANGED << readVars, ctorVars, mergeVars, stepVars >>

\* A task of the current call finishes (_infer_file_schema returns, or
\* raises SchemaInferenceError for its file) while the coroutine is suspended.
TaskComplete(t) ==
    /\ pc = "wait"
    /\ t \in running
    /\ running' = running \ {t}
    /\ finished' = finished \cup {t}
    /\ UNCHANGED << input_schema, max_n_files, n_concurrent_requests,
                    list_files_cache, schema_cache, n_list, pc, files,
                    n_started, pending_tasks, base_schema, leaked, outcome,
                    last_call, started, failed, produced, submitted, folded >>
    /\ UNCHANGED << readVars, ctorVars, mergeVars, stepVars >>

\* The orders in which `for task in done` may visit the set done.
Orderings(S) ==
    { o \in [1..Cardinality(S) -> S] : \A i, j \in 1..Cardinality(S) : o[i] = o[j] => i = j }

\* The fold with the exception of a failed task swallowed: the task is skipped.
RECURSIVE FoldDoneSkipFailed(_, _, _)
FoldDoneSkipFailed(base, order, result) ==
    IF order = <<>> THEN [raised |-> FALSE, schema |-> base, uri |-> 0, folded |-> <<>>]
    ELSE IF ~result[Head(order)].ok
         THEN FoldDoneSkipFailed(base, Tail(order), result)
         ELSE LET r == FoldDoneSkipFailed(merge_schemas(base, result[Head(order)].schema),
                                          Tail(order), result) IN
                [r EXCEPT !.folded = << Head(order) >> \o @]

\* The fold taking one task of done only (`task = done.pop()`): the others are lost.
FoldDoneFirstOnly(base, order, result) ==
    IF order = <<>> THEN [raised |-> FALSE, schema |-> base, uri |-> 0, folded |-> <<>>]
    ELSE IF ~result[Head(order)].ok
         THEN [raised |-> TRUE, schema |-> EmptySchema, uri |-> Head(order), folded |-> <<>>]
         ELSE [raised |-> FALSE, uri |-> 0, folded |-> << Head(order) >>,
               schema |-> merge_schemas(base, result[Head(order)].schema)]

\* `for task in done: base_schema = merge_schemas(base_schema, task.result())`
\* with done visited in `order`; result[t] is what task.result() gives for t,
\* and a failed task's result() re-raises its SchemaInferenceError.  `folded`
\* is the tasks whose result was merged, in order.
RECURSIVE FoldDone(_, _, _)
FoldDone(base, order, result) ==
    IF order = <<>> THEN [raised |-> FALSE, schema |-> base, uri |-> 0, folded |-> <<>>]
    ELSE IF ~result[Head(order)].ok
         THEN [raised |-> TRUE, schema |-> EmptySchema, uri |-> Head(order), folded |-> <<>>]
         ELSE LET r == FoldDone(merge_schemas(base, result[Head(order)].schema),
                                Tail(order), result) IN
                [r EXCEPT !.folded = << Head(order) >> \o @]

\* An asyncio.wait that returns when every task has completed (ALL_COMPLETED).
WaitAllCompleted == finished # {} /\ pending_tasks \subseteq finished

\* return_when=asyncio.FIRST_COMPLETED: asyncio.wait returns once a task of
\* pending_tasks has finished.
WaitReady == finished # {}

\* A done set that also holds the tasks still pending.
DoneWithPending == pending_tasks

\* The done set asyncio.wait returns: the tasks that have finished.
Done == finished

\* folded, with one more fold counted for each task of the sequence seq.
RECURSIVE CountFolds(_, _)
CountFolds(f, seq) ==
    IF seq = <<>> THEN f
    ELSE CountFolds([t \in (DOMAIN f) \cup { Head(seq) } |->
                        (IF t \in DOMAIN f THEN f[t] ELSE 0)
                            + (IF t = Head(seq) THEN 1 ELSE 0)],
                    Tail(seq))

\* asyncio.wait(..., return_when=FIRST_COMPLETED) resumes the coroutine with
\* done, the tasks finished so far; it folds them and goes back to the while
\* test, or the exception of a failed task leaves _infer_schema, infer_schema
\* and get_json_schema, and the tasks still running stay in the event loop.
WaitReturns ==
    /\ pc = "wait"
    /\ WaitReady
    /\ pending_tasks' = pending_tasks \ Done
    /\ finished' = {}
    /\ \E result \in [Done -> InferOutcomes] :
        /\ failed' = failed \cup { t \in Done : ~result[t].ok }
        /\ \E order \in Orderings(Done) :
            LET r == FoldDone(base_schema, order, result) IN
                IF r.raised
                THEN /\ pc' = "idle"
                     /\ outcome' = Raised("SchemaInferenceError", r.uri)
                     /\ leaked' = running
                     /\ running' = {}
                     /\ UNCHANGED << base_schema, produced, folded >>
                ELSE /\ pc' = "loop"
                     /\ base_schema' = r.schema
                     /\ produced' = produced \cup { result[t].schema : t \in Done }
                     /\ folded' = CountFolds(folded, r.folded)
                     /\ UNCHANGED << outcome, leaked, running >>
    /\ UNCHANGED << input_schema, max_n_files, n_concurrent_requests,
                    list_files_cache, schema_cache, n_list, files, n_started,
                    last_call, started, submitted >>
    /\ UNCHANGED << readVars, ctorVars, mergeVars, stepVars >>

Next ==
    \/ GetJsonSchema
    \/ LoopEnter
    \/ LoopExit
    \/ \E t \in running : TaskComplete(t)
    \/ WaitReturns

Spec == Init /\ [][Next]_vars

(***************************************************************************)
(* Properties of schema discovery (checked under Spec).                    *)
(***************************************************************************)
\* C1: during _infer_schema the number of per-file inference operations that
\* were started and are not yet resolved never exceeds n_concurrent_requests.
C1_BoundedConcurrency == Cardinality(running) <= n_concurrent_requests

\* C2: when exactly one of the N >= 2 files handed to inference has failed,
\* the call does not return a schema, and once it has ended it has raised
\* SchemaInferenceError naming the failing file's uri.
C2_FailFast ==
    (Len(files) >= 2 /\ Cardinality(failed) = 1) =>
        /\ outcome.kind # "returned"
        /\ pc = "idle"
        /\ outcome.kind = "SchemaInferenceError"
        /\ \A t \in failed : outcome.uri = t

\* C2's case: one of two or more files failed, a sibling succeeded and was
\* folded before, and the call has ended with the error.
C2_Witness ==
    /\ Len(files) >= 2
    /\ Cardinality(failed) = 1
    /\ pc = "idle"
    /\ outcome.kind = "SchemaInferenceError"
    /\ produced # {}

\* C3: once the call has propagated the error of a failed per-file operation,
\* no operation started by that call is still pending in the event loop.
C3_SiblingsCancelled == outcome.kind = "SchemaInferenceError" => leaked = {}

\* The merge of a set of schemas, taken in one fixed order.
RECURSIVE MergeAll(_)
MergeAll(S) ==
    IF S = {} THEN EmptySchema
    ELSE LET s == CHOOSE x \in S : TRUE IN merge_schemas(s, MergeAll(S \ {s}))

\* C4: the schema an inference returns is a function of the per-file schemas
\* alone (their merge in one fixed order), whatever the order in which the
\* tasks finished and were folded and whatever the cap.
C4_ResultIndependentOfOrder ==
    (outcome.kind = "returned" /\ last_call = "inferred") =>
        outcome.schema = MergeAll(produced)

\* C4's case: {a:string}, {a:integer}, {b:boolean} gave {a: union, b: boolean}.
C4_Witness ==
    /\ last_call = "inferred"
    /\ Len(files) = 3
    /\ produced = { [a |-> Tag("string")], [a |-> Tag("integer")], [b |-> Tag("boolean")] }
    /\ outcome = Returned([a |-> Union({"string", "integer"}), b |-> Tag("boolean")])

\* g comes before f among the most recent files: later last_modified, and
\* earlier in the listing when the instants are equal.
MoreRecent(g, f) ==
    \/ g.last_modified > f.last_modified
    \/ g.last_modified = f.last_modified /\ g.uri < f.uri

ListedFiles == { list_files_cache.val[i] : i \in 1..Len(list_files_cache.val) }

\* The uris of the k = max_n_files most recent files, or of all the files
\* when there are no more than k.
ExpectedSample ==
    IF Len(list_files_cache.val) <= max_n_files
    THEN { f.uri : f \in ListedFiles }
    ELSE { f.uri : f \in { f \in ListedFiles :
                Cardinality({ g \in ListedFiles : MoreRecent(g, f) }) < max_n_files } }

\* C5: inference is handed, and started for, the k most recent files only
\* (ties by listing order) when more than k are listed, all the files
\* otherwise; when it returns, it was started for every one of them.
C5_SamplingTruncation ==
    list_files_cache.kind = "some" =>
        /\ { files[i].uri : i \in 1..Len(files) } = ExpectedSample
        /\ started \subseteq ExpectedSample
        /\ outcome.kind = "returned" => started = ExpectedSample

\* C5's case: more files than k, a tie in last_modified between a sampled
\* file and a file left out, and the inference has returned.
C5_Witness ==
    /\ list_files_cache.kind = "some"
    /\ Len(list_files_cache.val) > max_n_files
    /\ outcome.kind = "returned"
    /\ \E f, g \in ListedFiles :
         /\ f.uri \in started
         /\ g.uri \notin started
         /\ f.last_modified = g.last_modified

\* C9: once get_json_schema has returned a schema, every later call returns
\* that schema at once: it lists no file, creates no task and leaves the
\* cached schema as it is.
C9_SecondCallUsesCache ==
    [][schema_cache.kind = "some" =>
         /\ outcome' = Returned(schema_cache.val)
         /\ pc' = "idle"
         /\ schema_cache' = schema_cache
         /\ n_list' = n_list
         /\ started' = started
         /\ running' = running]_vars

\* C9's case: a first call inferred from files and returned, a later call
\* was answered from the cache.
C9_Witness ==
    /\ last_call = "cache"
    /\ pc = "idle"
    /\ started # {}
    /\ outcome = Returned(schema_cache.val)

InitRead ==
    /\ input_schema = NoneVal
    /\ max_n_files = 1
    /\ n_concurrent_requests = 1
    /\ validation_policy \in {"strict", "permissive"}
    /\ FreshStream
    /\ Constructed
    /\ NoMerge
    /\ NoSteps

\* _get_datetime_from_stream_state, lines 125-127 (`# TODO: implement me`).
get_datetime_from_stream_state(state) == NoneVal

\* list_files_for_this_sync, line 123.
list_files_for_this_sync(store, state) ==
    list_matching_files(store, get_datetime_from_stream_state(state))

\* `if not record_passes_validation_policy(...)` for a record of the sync.
Passes(record) ==
    record_passes_validation_policy(validation_policy, record, catalog_schema.val)

\* The two loops with `break` in place of `continue`: a rejected record ends
\* the parsing of its file.
RECURSIVE ScanBreakOnReject(_, _, _, _)
ScanBreakOnReject(fs, i, j, w) ==
    IF i > Len(fs) THEN [found |-> FALSE, file |-> i, rec |-> 0, warnings |-> w]
    ELSE IF j > Len(fs[i].records) THEN ScanBreakOnReject(fs, i + 1, 1, w)
    ELSE IF ~Passes(fs[i].records[j]) THEN ScanBreakOnReject(fs, i + 1, 1, w + 1)
    ELSE [found |-> TRUE, file |-> i, rec |-> j, warnings |-> w]

\* Lines 70-75 from the j-th record of the i-th file on: the next record that
\* passes, with a warning logged for each record skipped on the way.
RECURSIVE Scan(_, _, _, _)
Scan(fs, i, j, w) ==
    IF i > Len(fs) THEN [found |-> FALSE, file |-> i, rec |-> 0, warnings |-> w]
    ELSE IF j > Len(fs[i].records) THEN Scan(fs, i + 1, 1, w)
    ELSE IF ~Passes(fs[i].records[j]) THEN Scan(fs, i, j + 1, w + 1)
    ELSE [found |-> TRUE, file |-> i, rec |-> j, warnings |-> w]

\* read_records(sync_mode, cursor_field, stream_slice, stream_state): the
\* generator is created, none of its body runs yet.
ReadRecords ==
    /\ rd_pc = "idle"
    /\ rd_pc' = "open"
    /\ stream_state' \in StreamStates
    /\ UNCHANGED << validation_policy, catalog_schema, remote, rd_files, rd_file,
                    rd_rec, out, n_warnings, rd_error >>
    /\ UNCHANGED << discoveryVars, ctorVars, mergeVars, stepVars >>

\* The body up to the yield (or the end) that follows position (i, j).
Advance(fs, i, j) ==
    LET s == Scan(fs, i, j, n_warnings) IN
        /\ rd_files' = fs
        /\ rd_file' = s.file
        /\ rd_rec' = s.rec
        /\ n_warnings' = s.warnings
        /\ IF s.found
           THEN /\ out' = Append(out, fs[s.file].records[s.rec])
                /\ rd_pc' = "yielded"
           ELSE /\ out' = out
                /\ rd_pc' = "exhausted"
        /\ UNCHANGED rd_error

\* The first next(): lines 65-69, then the loops.
NextRecordFirst ==
    /\ rd_pc = "open"
    /\ IF catalog_schema.kind = "none"
       THEN /\ rd_pc' = "raised"
            /\ rd_error' = "MissingSchemaError"
            /\ UNCHANGED << remote, rd_files, rd_file, rd_rec, out, n_warnings >>
       ELSE \E n \in 0..MaxSyncFiles : \E m \in SyncStoreShapes(n) :
            /\ remote' = SyncStore(n, m)
            /\ Advance(list_files_for_this_sync(SyncStore(n, m), stream_state), 1, 1)
    /\ UNCHANGED << validation_policy, catalog_schema, stream_state >>
    /\ UNCHANGED << discoveryVars, ctorVars, mergeVars, stepVars >>

\* A later next(): the loops go on behind the record yielded last.
NextRecord ==
    /\ rd_pc = "yielded"
    /\ Advance(rd_files, rd_file, rd_rec + 1)
    /\ UNCHANGED << validation_policy, catalog_schema, remote, stream_state >>
    /\ UNCHANGED << discoveryVars, ctorVars, mergeVars, stepVars >>

NextRead ==
    \/ ReadRecords
    \/ NextRecordFirst
    \/ NextRecord

SpecRead == InitRead /\ [][NextRead]_vars

(***************************************************************************)
(* Properties of record extraction (checked under SpecRead).               *)
(***************************************************************************)
\* C6: read_records on a stream for which no schema was resolved (none ever
\* is in a sync of a freshly constructed stream) raises MissingSchemaError
\* and yields no record.
C6_MissingSchemaRaises ==
    rd_pc \notin {"idle", "open"} =>
        rd_pc = "raised" /\ rd_error = "MissingSchemaError" /\ out = <<>>

\* The files in scope of a cursor: all of them without a cursor, those
\* modified at or after the cursor instant with one.
InScope(store, state) ==
    { store[i].uri : i \in { i \in 1..Len(store) :
        state.kind = "none" \/ store[i].last_modified >= state.val } }

\* C7: the files selected for a sync are exactly the matching files modified
\* at or after the cursor instant of the stream state, and all the matching
\* files when there is no cursor.
C7_IncrementalScoping ==
    rd_pc \in {"yielded", "exhausted"} =>
        { rd_files[i].uri : i \in 1..Len(rd_files) } = InScope(remote, stream_state)

\* The raw records of the files in listing order, each file's in its
\* parser's order.
RECURSIVE RawRecords(_)
RawRecords(fs) ==
    IF fs = <<>> THEN <<>>
    ELSE RawRecords(SubSeq(fs, 1, Len(fs) - 1)) \o fs[Len(fs)].records

\* The number of raw records taken from the parsers so far.
Consumed ==
    IF rd_pc = "exhausted" THEN Len(RawRecords(rd_files))
    ELSE Len(RawRecords(SubSeq(rd_files, 1, rd_file - 1))) + rd_rec

\* C8: the records yielded are the raw records taken so far (files in listing
\* order, parser order within a file) with the rejected ones removed and one
\* warning for each of them; at the end every raw record was taken.
C8_YieldsAcceptedInOrder ==
    rd_pc \in {"yielded", "exhausted"} =>
        LET taken == SubSeq(RawRecords(rd_files), 1, Consumed) IN
            /\ out = SelectSeq(taken, Passes)
            /\ n_warnings = Len(taken) - Len(out)
            /\ rd_pc = "yielded" => out[Len(out)] = taken[Len(taken)]

\* C8's case: the extraction ended after a record was dropped between two
\* records that were yielded, and records of two files were yielded.
C8_Witness ==
    /\ rd_pc = "exhausted"
    /\ n_warnings > 0
    /\ Len(out) >= 2
    /\ \E i \in 1..Len(RawRecords(rd_files)) :
         /\ ~Passes(RawRecords(rd_files)[i])
         /\ i > 1
         /\ i < Len(RawRecords(rd_files))
    /\ out[1].uri # out[Len(out)].uri
(***************************************************************************)
(* merge_schemas on its own: three schemas are chosen and merged.          *)
(***************************************************************************)
\* The field names and primitive tags the operands are built from.
FieldNames == {"a", "b"}
PrimitiveTags == {"string", "integer", "boolean"}

\* The canonical descriptors: a bare tag, or a union of two or more tags.
Descriptors == { Canon(S) : S \in (SUBSET PrimitiveTags) \ {{}} }

\* The schemas over FieldNames.
Schemas == UNION { [D -> Descriptors] : D \in SUBSET FieldNames }

InitMerge ==
    /\ input_schema = NoneVal
    /\ max_n_files = 1
    /\ n_concurrent_requests = 1
    /\ validation_policy = "strict"
    /\ FreshStream
    /\ Constructed
    /\ NoSteps
    /\ mg_pc = "in"
    /\ mg_a \in Schemas
    /\ mg_b \in Schemas
    /\ mg_c \in Schemas
    /\ mg_ab = EmptySchema
    /\ mg_ba = EmptySchema
    /\ mg_ab_c = EmptySchema
    /\ mg_a_bc = EmptySchema
    /\ mg_aa = EmptySchema

\* The merges of the three operands.
MergeSchemas ==
    /\ mg_pc = "in"
    /\ mg_pc' = "done"
    /\ mg_ab' = merge_schemas(mg_a, mg_b)
    /\ mg_ba' = merge_schemas(mg_b, mg_a)
    /\ mg_ab_c' = merge_schemas(merge_schemas(mg_a, mg_b), mg_c)
    /\ mg_a_bc' = merge_schemas(mg_a, merge_schemas(mg_b, mg_c))
    /\ mg_aa' = merge_schemas(mg_a, mg_a)
    /\ UNCHANGED << mg_a, mg_b, mg_c >>
    /\ UNCHANGED << discoveryVars, readVars, ctorVars, stepVars >>

NextMerge == MergeSchemas

SpecMerge == InitMerge /\ [][NextMerge]_vars

\* The tags of field f in schema s: none when s has no field f.
TagsOf(s, f) == IF f \in DOMAIN s THEN s[f].tags ELSE {}

\* C11: merge_schemas is commutative, associative and idempotent; the fields
\* of a merge are exactly the fields of its operands, each with the union of
\* the operands' tags for it, stored as a bare tag exactly when that union
\* has one element.
C11_MergeIsCanonicalJoin ==
    mg_pc = "done" =>
        /\ mg_ab = mg_ba
        /\ mg_ab_c = mg_a_bc
        /\ mg_aa = mg_a
        /\ DOMAIN mg_ab = (DOMAIN mg_a) \cup (DOMAIN mg_b)
        /\ DOMAIN mg_ab_c = (DOMAIN mg_a) \cup (DOMAIN mg_b) \cup (DOMAIN mg_c)
        /\ \A f \in DOMAIN mg_ab :
             /\ mg_ab[f].tags = TagsOf(mg_a, f) \cup TagsOf(mg_b, f)
             /\ mg_ab[f].kind = "tag" <=> Cardinality(mg_ab[f].tags) = 1
        /\ \A f \in DOMAIN mg_ab_c :
             /\ mg_ab_c[f].tags = TagsOf(mg_a, f) \cup TagsOf(mg_b, f) \cup TagsOf(mg_c, f)
             /\ mg_ab_c[f].kind = "tag" <=> Cardinality(mg_ab_c[f].tags) = 1

\* C11's case: a field of both operands with different tags became a union,
\* a field of both with the same tag stayed bare, a field of one operand was
\* copied, and the third operand widened the union.
C11_Witness ==
    /\ mg_pc = "done"
    /\ mg_a = [a |-> Tag("string"), b |-> Tag("boolean")]
    /\ mg_b = [a |-> Tag("integer"), b |-> Tag("boolean")]
    /\ mg_c = [a |-> Tag("boolean")]
    /\ mg_ab = [a |-> Union({"string", "integer"}), b |-> Tag("boolean")]
    /\ mg_ab_c = [a |-> Union({"string", "integer", "boolean"}), b |-> Tag("boolean")]
(***************************************************************************)
(* __init__: the stream is constructed from a raw configuration, then used *)
(* for schema discovery.                                                   *)
(***************************************************************************)
\* The file types a stream may declare (the keys of _get_parser).
FileTypes == {"avro", "csv", "jsonl", "parquet"}

\* The raw configurations a caller may pass: well-formed or not.
RawConfigs == { RawConfig(ft, s) : ft \in {"csv", "xml"}, s \in InputSchemas }

\* FileBasedStreamConfig(**raw_config) accepts the configuration: it raises
\* on a mismatch, here a file type that is none of FileTypes.
ConfigIsValid(raw) == raw.file_type \in FileTypes

\* Before __init__: no attribute of the stream is set.
InitNew ==
    /\ raw_config \in RawConfigs
    /\ ctor_pc = "new"
    /\ ctor_error = "none"
    /\ reader_attached = FALSE
    /\ policy_attached = FALSE
    /\ input_schema = NoneVal
    /\ max_n_files \in 1..MaxSample
    /\ n_concurrent_requests \in 1..MaxConcurrent
    /\ validation_policy = "strict"
    /\ catalog_schema = NoneVal
    /\ remote = <<>>
    /\ stream_state = NoneVal
    /\ rd_pc = "idle"
    /\ rd_files = <<>>
    /\ rd_file = 0
    /\ rd_rec = 0
    /\ out = <<>>
    /\ n_warnings = 0
    /\ rd_error = "none"
    /\ list_files_cache = NoneVal
    /\ schema_cache = NoneVal
    /\ n_list = 0
    /\ pc = "idle"
    /\ files = <<>>
    /\ n_started = 0
    /\ pending_tasks = {}
    /\ base_schema = EmptySchema
    /\ running = {}
    /\ finished = {}
    /\ leaked = {}
    /\ outcome = NoOutcome
    /\ last_call = "none"
    /\ started = {}
    /\ failed = {}
    /\ produced = {}
    /\ submitted = <<>>
    /\ folded = <<>>
    /\ NoMerge
    /\ NoSteps

\* An __init__ that assigns the reader and the policy before it builds the
\* configuration: they are attached when the configuration is rejected.
ConstructAttachFirst ==
    /\ ctor_pc = "new"
    /\ reader_attached' = TRUE
    /\ policy_attached' = TRUE
    /\ IF ConfigIsValid(raw_config)
       THEN /\ input_schema' = raw_config.input_schema
            /\ catalog_schema' = Some(EmptySchema)
            /\ ctor_pc' = "constructed"
            /\ UNCHANGED ctor_error
       ELSE /\ ctor_pc' = "raised"
            /\ ctor_error' = "ConfigValidationError"
            /\ UNCHANGED << input_schema, catalog_schema >>
    /\ UNCHANGED << raw_config, max_n_files, n_concurrent_requests,
                    list_files_cache, schema_cache, n_list, pc, files,
                    n_started, pending_tasks, base_schema, running, finished,
                    leaked, outcome, last_call, started, failed, produced,
                    submitted, folded >>
    /\ UNCHANGED << validation_policy, remote, stream_state, rd_pc, rd_files,
                    rd_file, rd_rec, out, n_warnings, rd_error >>
    /\ UNCHANGED << mergeVars, stepVars >>

\* __init__, lines 43-49: the configuration is built first; when that
\* raises, ConfigValidationError leaves __init__ and lines 47-49 do not run.
Construct ==
    /\ ctor_pc = "new"
    /\ IF ConfigIsValid(raw_config)
       THEN /\ input_schema' = raw_config.input_schema
            /\ catalog_schema' = Some(EmptySchema)
            /\ reader_attached' = TRUE
            /\ policy_attached' = TRUE
            /\ ctor_pc' = "constructed"
            /\ UNCHANGED ctor_error
       ELSE /\ ctor_pc' = "raised"
            /\ ctor_error' = "ConfigValidationError"
            /\ UNCHANGED << input_schema, catalog_schema, reader_attached,
                            policy_attached >>
    /\ UNCHANGED << raw_config, max_n_files, n_concurrent_requests,
                    list_files_cache, schema_cache, n_list, pc, files,
                    n_started, pending_tasks, base_schema, running, finished,
                    leaked, outcome, last_call, started, failed, produced,
                    submitted, folded >>
    /\ UNCHANGED << validation_policy, remote, stream_state, rd_pc, rd_files,
                    rd_file, rd_rec, out, n_warnings, rd_error >>
    /\ UNCHANGED << mergeVars, stepVars >>

\* The methods of a stream are called on a stream __init__ returned.
NextNew ==
    \/ Construct
    \/ ctor_pc = "constructed" /\ Next

SpecNew == InitNew /\ [][NextNew]_vars

\* C12: a malformed raw configuration makes __init__ raise
\* ConfigValidationError, never return a stream; then no file was listed, no
\* per-file inference or read was started, and neither the reader nor the
\* policy was attached.
C12_MalformedConfigFailsFirst ==
    /\ ctor_pc = "constructed" => ConfigIsValid(raw_config)
    /\ (ctor_pc # "new" /\ ~ConfigIsValid(raw_config)) =>
         /\ ctor_pc = "raised"
         /\ ctor_error = "ConfigValidationError"
         /\ ~reader_attached
         /\ ~policy_attached
         /\ catalog_schema = NoneVal
         /\ n_list = 0
         /\ list_files_cache = NoneVal
         /\ started = {}
         /\ rd_pc = "idle"
         /\ remote = <<>>

\* C12's case: __init__ has raised on a configuration of unknown file type.
C12_Witness ==
    /\ ctor_pc = "raised"
    /\ raw_config.file_type = "xml"
    /\ ctor_error = "ConfigValidationError"
(***************************************************************************)
(* The step runners of pipelines/helpers/steps.py: new_run_steps and       *)
(* run_steps.  A call runs the first group of its list in a task group and *)
(* calls itself with the rest.                                             *)
(***************************************************************************)
\* A StepResult: the step it is for, and its status.
Result(id, status) == [step |-> id, status |-> status]

\* The value of a task that has not finished.
NoValue == Result(0, "none")

\* One element of the list: a single step ("one"), for run_steps a (step,
\* run args) tuple ("tuple"), or a sublist of steps ("list").  A step is
\* named by its id.
Group(kind, ids) == [kind |-> kind, ids |-> ids]

\* The shapes of an element: its kind and the number of its steps.
GroupShapes(runner) ==
    { <<"one", 1>> } \cup { <<"list", k>> : k \in 1..MaxGroupSize }
        \cup (IF runner = "run_steps" THEN { <<"tuple", 1>> } ELSE {})

\* The number of steps in the first i - 1 elements of shape sh.
RECURSIVE Offset(_, _)
Offset(sh, i) == IF i = 1 THEN 0 ELSE Offset(sh, i - 1) + sh[i - 1][2]

\* The list of shape sh: its steps have the ids 1, 2, ... in list order.
Runnables(sh) ==
    [g \in 1..Len(sh) |->
        Group(sh[g][1], [k \in 1..sh[g][2] |-> Offset(sh, g) + k])]

\* The ids of the steps of group g, and of the groups from g on.
GroupIds(input, g) == { input[g].ids[k] : k \in 1..Len(input[g].ids) }
IdsFrom(input, g) == UNION { GroupIds(input, h) : h \in g..Len(input) }

\* context.skip_steps: no id, or one id of the list.
SkipSets(input) == { {} } \cup { {id} : id \in IdsFrom(input, 1) }

\* The results argument of the first call of new_run_steps: the default {},
\* or the result of a step run before, under an id of its own.
InitialResults ==
    { <<>> } \cup { (0 :> Result(0, status)) : status \in {"SUCCESS", "FAILURE"} }

InitSteps ==
    /\ input_schema = NoneVal
    /\ max_n_files = 1
    /\ n_concurrent_requests = 1
    /\ validation_policy = "strict"
    /\ FreshStream
    /\ Constructed
    /\ NoMerge
    /\ st_runner \in {"new_run_steps", "run_steps"}
    /\ \E n \in 0..MaxGroups : \E sh \in [1..n -> GroupShapes(st_runner)] :
         st_input = Runnables(sh)
    /\ IF st_runner = "new_run_steps"
       THEN /\ st_fail_fast \in BOOLEAN
            /\ st_skip_steps \in SkipSets(st_input)
            /\ st_initial \in InitialResults
       ELSE /\ st_fail_fast = TRUE
            /\ st_skip_steps = {}
            /\ st_initial = <<>>
    /\ st_results = st_initial
    /\ st_pc = "call"
    /\ st_remaining = 1
    /\ st_tasks = <<>>
    /\ st_ran = {}
    /\ st_done = {}
    /\ st_values = <<>>
    /\ st_error = "none"
\* `any(result.status is StepStatus.FAILURE for result in results...)`, over
\* the values of a dict (new_run_steps) or the items of a list (run_steps).
AnyFailure(results) == \E k \in DOMAIN results : results[k].status = "FAILURE"

\* A merge that keeps the new results only: {**new_results}.
DictReplace(a, b) == b

\* {**a, **b}
DictUpdate(a, b) ==
    [k \in (DOMAIN a) \cup (DOMAIN b) |-> IF k \in DOMAIN b THEN b[k] ELSE a[k]]

\* new_run_steps, lines 83-91: a skip result for every step of the groups
\* from g on.
SkippedResults(input, g) == [id \in IdsFrom(input, g) |-> Result(id, "SKIPPED")]

\* A task as task_group.soonify leaves it: scheduled, not started.
Task(id, fn) == [id |-> id, fn |-> fn, state |-> "scheduled", value |-> NoValue]

\* new_run_steps, lines 103-111: async_skip for a step of skip_steps, run
\* for the others.
NewTasks(group) ==
    [i \in 1..Len(group.ids) |->
        Task(group.ids[i],
             IF group.ids[i] \in st_skip_steps THEN "async_skip" ELSE "run")]

\* run_steps, lines 153-159: run for every step.
OldTasks(group) == [i \in 1..Len(group.ids) |-> Task(group.ids[i], "run")]

\* One call of new_run_steps, up to its return or to the exit of its task
\* group, where it waits for the tasks.
NewRunSteps ==
    /\ st_runner = "new_run_steps"
    /\ st_pc = "call"
    /\ IF st_remaining > Len(st_input)
       THEN \* `if not runnables: return results`
            /\ st_pc' = "returned"
            /\ UNCHANGED << st_results, st_tasks >>
       ELSE IF st_fail_fast /\ AnyFailure(st_results)
       THEN /\ st_results' = DictUpdate(st_results, SkippedResults(st_input, st_remaining))
            /\ st_pc' = "returned"
            /\ UNCHANGED st_tasks
       ELSE /\ st_tasks' = NewTasks(st_input[st_remaining])
            /\ st_pc' = "group"
            /\ UNCHANGED st_results
    /\ UNCHANGED << st_runner, st_input, st_fail_fast, st_skip_steps, st_initial,
                    st_remaining, st_ran, st_done, st_values, st_error >>
    /\ UNCHANGED << discoveryVars, readVars, ctorVars, mergeVars >>

\* One call of run_steps, likewise.  In its skip branch an element that is
\* not a tuple is taken for a step: `.skip()` of a sublist raises
\* AttributeError.
RunSteps ==
    /\ st_runner = "run_steps"
    /\ st_pc = "call"
    /\ IF st_remaining > Len(st_input)
       THEN /\ st_pc' = "returned"
            /\ UNCHANGED << st_results, st_tasks, st_error >>
       ELSE IF AnyFailure(st_results)
       THEN IF \E g \in st_remaining..Len(st_input) : st_input[g].kind = "list"
            THEN /\ st_pc' = "raised"
                 /\ st_error' = "AttributeError"
                 /\ UNCHANGED << st_results, st_tasks >>
            ELSE /\ st_results' = st_results \o
                        [k \in 1..(Len(st_input) - st_remaining + 1) |->
                            Result(st_input[st_remaining + k - 1].ids[1], "SKIPPED")]
                 /\ st_pc' = "returned"
                 /\ UNCHANGED << st_tasks, st_error >>
       ELSE /\ st_tasks' = OldTasks(st_input[st_remaining])
            /\ st_pc' = "group"
            /\ UNCHANGED << st_results, st_error >>
    /\ UNCHANGED << st_runner, st_input, st_fail_fast, st_skip_steps, st_initial,
                    st_remaining, st_ran, st_done, st_values >>
    /\ UNCHANGED << discoveryVars, readVars, ctorVars, mergeVars >>

\* A task of the group starts: step.run or step.async_skip is invoked.
TaskStart(i) ==
    /\ st_pc = "group"
    /\ st_tasks[i].state = "scheduled"
    /\ st_tasks' = [st_tasks EXCEPT ![i].state = "running"]
    /\ st_ran' = IF st_tasks[i].fn = "run" THEN st_ran \cup { st_tasks[i].id } ELSE st_ran
    /\ UNCHANGED << st_runner, st_input, st_fail_fast, st_skip_steps, st_pc,
                    st_remaining, st_initial, st_results, st_done, st_values, st_error >>
    /\ UNCHANGED << discoveryVars, readVars, ctorVars, mergeVars >>

\* A task of the group finishes with its StepResult: SUCCESS or FAILURE
\* from run, SKIPPED from async_skip.
TaskFinish(i) ==
    /\ st_pc = "group"
    /\ st_tasks[i].state = "running"
    /\ \E status \in (IF st_tasks[i].fn = "run" THEN {"SUCCESS", "FAILURE"} ELSE {"SKIPPED"}) :
        /\ st_tasks' = [st_tasks EXCEPT ![i].state = "done",
                                        ![i].value = Result(st_tasks[i].id, status)]
        /\ st_values' = [id \in (DOMAIN st_values) \cup { st_tasks[i].id } |->
                            IF id = st_tasks[i].id THEN Result(id, status) ELSE st_values[id]]
    /\ st_done' = st_done \cup { st_tasks[i].id }
    /\ UNCHANGED << st_runner, st_input, st_fail_fast, st_skip_steps, st_pc,
                    st_remaining, st_initial, st_results, st_ran, st_error >>
    /\ UNCHANGED << discoveryVars, readVars, ctorVars, mergeVars >>

\* A task group left as soon as one of its tasks has finished.
SomeTaskDone == \E i \in DOMAIN st_tasks : st_tasks[i].state = "done"

\* The exit of `async with asyncer.create_task_group()` waits for every task.
AllTasksDone == \A i \in DOMAIN st_tasks : st_tasks[i].state = "done"

\* new_run_steps, line 113: {steps_to_run[i].id: task.value for i, task in
\* enumerate(tasks)}; the last task of an id gives its value.
NewResults(tasks) ==
    [id \in { tasks[i].id : i \in DOMAIN tasks } |->
        tasks[CHOOSE i \in DOMAIN tasks :
                /\ tasks[i].id = id
                /\ \A j \in DOMAIN tasks : tasks[j].id = id => j <= i].value]

\* The task group is left: the values of the tasks join the results and the
\* runner calls itself with the remaining elements.
TaskGroupExit ==
    /\ st_pc = "group"
    /\ AllTasksDone
    /\ st_results' =
         IF st_runner = "new_run_steps"
         THEN DictUpdate(st_results, NewResults(st_tasks))
         ELSE st_results \o [i \in DOMAIN st_tasks |-> st_tasks[i].value]
    /\ st_remaining' = st_remaining + 1
    /\ st_tasks' = <<>>
    /\ st_pc' = "call"
    /\ UNCHANGED << st_runner, st_input, st_fail_fast, st_skip_steps, st_initial,
                    st_ran, st_done, st_values, st_error >>
    /\ UNCHANGED << discoveryVars, readVars, ctorVars, mergeVars >>

NextSteps ==
    \/ NewRunSteps
    \/ RunSteps
    \/ \E i \in DOMAIN st_tasks : TaskStart(i)
    \/ \E i \in DOMAIN st_tasks : TaskFinish(i)
    \/ TaskGroupExit

SpecSteps == InitSteps /\ [][NextSteps]_vars

(***************************************************************************)
(* Properties of the step runners (checked under SpecSteps).               *)
(***************************************************************************)
\* The groups a step of which has finished with status FAILURE.
FailedGroups ==
    { g \in 1..Len(st_input) : \E id \in GroupIds(st_input, g) :
        id \in DOMAIN st_values /\ st_values[id].status = "FAILURE" }

\* The result recorded for step id is a skip result.
RecordedSkipped(id) ==
    IF st_runner = "new_run_steps"
    THEN id \in DOMAIN st_results /\ st_results[id] = Result(id, "SKIPPED")
    ELSE \E k \in DOMAIN st_results : st_results[k] = Result(id, "SKIPPED")

\* C13: with fail_fast (always, in run_steps), once a step of a group has
\* finished with FAILURE no step of a later group is run, and the runner
\* ends by returning a skip result for every step of every later group;
\* new_run_steps without fail_fast runs every group.
C13_FailFastSkipsLaterGroups ==
    /\ (st_runner = "run_steps" \/ st_fail_fast) =>
         \A g \in FailedGroups :
            /\ IdsFrom(st_input, g + 1) \cap st_ran = {}
            /\ st_pc = "call" => st_remaining = g + 1
            /\ st_pc \in {"returned", "raised"} =>
                 /\ st_pc = "returned"
                 /\ \A id \in IdsFrom(st_input, g + 1) : RecordedSkipped(id)
    /\ (st_runner = "new_run_steps" /\ ~st_fail_fast /\ st_pc = "returned"
            /\ ~AnyFailure(st_initial)) =>
         IdsFrom(st_input, 1) \ st_skip_steps \subseteq st_ran
\* The task of step id was started (run or async_skip was invoked).
StepStarted(id) ==
    \/ id \in st_ran
    \/ id \in st_done
    \/ \E i \in DOMAIN st_tasks : st_tasks[i].id = id /\ st_tasks[i].state # "scheduled"

\* C14: a step is started only when every step of every earlier group has
\* finished, and the tasks of the task group are the steps of one group.
C14_GroupsInOrderWithBarrier ==
    /\ \A g \in 1..Len(st_input) : \A id \in GroupIds(st_input, g) :
         StepStarted(id) =>
            (IdsFrom(st_input, 1) \ IdsFrom(st_input, g)) \subseteq st_done
    /\ st_pc = "group" =>
         { st_tasks[i].id : i \in DOMAIN st_tasks } = GroupIds(st_input, st_remaining)

\* C14's case: in the second group, after a first group of two steps, the
\* second step has finished while the first is still running.
C14_Witness ==
    /\ st_pc = "group"
    /\ st_remaining = 2
    /\ Len(st_input[1].ids) = 2
    /\ Len(st_tasks) = 2
    /\ st_tasks[1].state = "running"
    /\ st_tasks[2].state = "done"

\* C20: the dict of new_run_steps holds, for a step whose run was invoked,
\* the value its run returned, and for any other step a skip result; a step
\* of skip_steps is never run; the results of the groups already run and the
\* results supplied by the caller stay in the dict; at its return the dict
\* has exactly the ids of the list and the ids supplied by the caller.
C20_ResultsCoverEveryRunnable ==
    st_runner = "new_run_steps" =>
        /\ st_ran \cap st_skip_steps = {}
        /\ DOMAIN st_results \subseteq IdsFrom(st_input, 1) \cup DOMAIN st_initial
        /\ \A id \in DOMAIN st_initial :
             id \in DOMAIN st_results /\ st_results[id] = st_initial[id]
        /\ \A id \in (DOMAIN st_results) \cap IdsFrom(st_input, 1) :
             IF id \in st_ran
             THEN /\ id \in DOMAIN st_values
                  /\ st_results[id] = st_values[id]
                  /\ st_results[id].status \in {"SUCCESS", "FAILURE"}
             ELSE st_results[id] = Result(id, "SKIPPED")
        /\ st_pc \in {"call", "returned"} =>
             (IdsFrom(st_input, 1) \ IdsFrom(st_input, st_remaining))
                \subseteq DOMAIN st_results
        /\ st_pc = "returned" =>
             DOMAIN st_results = IdsFrom(st_input, 1) \cup DOMAIN st_initial

\* C20's case: the dict returned holds a result supplied by the caller, the
\* skip result of a step of skip_steps, the FAILURE of a step that was run
\* and the skip result of a step of a later group.
C20_Witness ==
    /\ st_runner = "new_run_steps"
    /\ st_pc = "returned"
    /\ st_initial # <<>>
    /\ st_skip_steps = {1}
    /\ st_ran = {2}
    /\ DOMAIN st_results = {0, 1, 2, 3}
    /\ st_results[1].status = "SKIPPED"
    /\ st_results[2].status = "FAILURE"
    /\ st_results[3].status = "SKIPPED"
(***************************************************************************)
(* The loop of _infer_schema under fair scheduling: the event loop resumes *)
(* a coroutine that can run, and every task that was started completes.    *)
(***************************************************************************)
SpecLive ==
    /\ Init
    /\ [][Next]_vars
    /\ WF_vars(LoopEnter)
    /\ WF_vars(LoopExit)
    /\ WF_vars(WaitReturns)
    /\ \A t \in 1..MaxFiles : WF_vars(TaskComplete(t))

(***************************************************************************)
(* Properties of the loop of _infer_schema (checked under Spec, the        *)
(* termination under SpecLive).                                            *)
(***************************************************************************)
\* C15: a call that entered _infer_schema eventually ends, and when the loop
\* ends by its while test (the inference returns) every file of the sample
\* was submitted and no task is pending.
C15_LoopTerminates ==
    /\ (pc # "idle") ~> (pc = "idle")
    /\ []((last_call = "inferred" /\ outcome.kind = "returned") =>
            (n_started = Len(files) /\ pending_tasks = {} /\ running = {}))

\* C15's case: an inference over three files with a cap of one, which takes
\* several passes of the loop, has returned.
C15_Witness ==
    /\ last_call = "inferred"
    /\ outcome.kind = "returned"
    /\ Len(files) = 3
    /\ n_concurrent_requests = 1
    /\ n_started = 3

\* The uris of the files handed to the inference.
SampleUris == { files[i].uri : i \in 1..Len(files) }

\* C16: within one inference call no file is submitted twice and only files
\* of the sample are submitted; when the call returns, every file of the
\* sample was submitted once, the result of each was folded once, and the
\* schema returned is the merge of those results from the empty schema.
C16_SubmittedAndFoldedOnce ==
    last_call = "inferred" =>
        /\ \A i, j \in 1..Len(submitted) : submitted[i] = submitted[j] => i = j
        /\ \A i \in 1..Len(submitted) : submitted[i] \in SampleUris
        /\ \A t \in DOMAIN folded : folded[t] = 1
        /\ outcome.kind = "returned" =>
             /\ Len(submitted) = Len(files)
             /\ DOMAIN folded = SampleUris
             /\ outcome.schema = MergeAll(produced)
             /\ Len(files) = 0 => outcome.schema = EmptySchema

\* C16's case: three files were submitted and folded, in more than one pass.
C16_Witness ==
    /\ last_call = "inferred"
    /\ outcome.kind = "returned"
    /\ Len(submitted) = 3
    /\ n_concurrent_requests = 1
    /\ DOMAIN folded = {1, 2, 3}
    /\ Cardinality(produced) >= 2

\* C17: asyncio.wait returns as soon as one task has finished, whatever the
\* other tasks do, and a pass of the loop that starts with files left to
\* submit creates a task before it suspends.
C17_NoFullBatchBarrier ==
    /\ []((pc = "wait" /\ finished # {}) => ENABLED WaitReturns)
    /\ [][(pc = "loop" /\ pc' = "wait" /\ n_started < Len(files)) =>
             n_started' > n_started]_vars

\* C17's case: the coroutine is suspended again after it created the task
\* of the third file, while a task of the first pass is still running.
C17_Witness ==
    /\ pc = "wait"
    /\ n_concurrent_requests = 1
    /\ Len(submitted) = 3
    /\ submitted[3] \in running
    /\ \E i \in 1..2 : submitted[i] \in running

\* The tasks whose result a step folds into base_schema.
FoldedInStep == { t \in DOMAIN folded' : t \notin DOMAIN folded \/ folded'[t] > folded[t] }

\* C18: base_schema changes only when a call starts (it is the empty schema
\* then) and when the coroutine, resumed by asyncio.wait, folds results; it
\* folds results of tasks that have finished only, each once, and a task
\* that finishes changes neither base_schema nor the record of the folds.
C18_AccumulatorOwnedByLoop ==
    [][(base_schema' # base_schema \/ folded' # folded) =>
         \/ pc = "idle" /\ pc' = "loop" /\ base_schema' = EmptySchema /\ folded' = <<>>
         \/ /\ pc = "wait"
            /\ pc' = "loop"
            /\ running' = running
            /\ FoldedInStep \subseteq finished
            /\ FoldedInStep \cap running = {}
            /\ \A t \in FoldedInStep :
                 folded'[t] = (IF t \in DOMAIN folded THEN folded[t] ELSE 0) + 1]_vars

\* C18's case: a result was folded while another task is still running.
C18_Witness ==
    /\ pc = "wait"
    /\ base_schema # EmptySchema
    /\ DOMAIN folded # {}
    /\ running # {}
    /\ finished # {}

\* C19: the coroutine is never suspended in asyncio.wait on an empty set
\* (asyncio.wait never raises ValueError), and with no file the inference
\* returns the empty schema without a pass of the loop.
C19_NeverWaitsOnEmptySet ==
    /\ pc = "wait" => pending_tasks # {}
    /\ outcome.kind # "ValueError"
    /\ (last_call = "inferred" /\ pc = "idle" /\ Len(files) = 0) =>
         /\ outcome = Returned(EmptySchema)
         /\ submitted = <<>>

\* C19's case: no file was listed and the inference returned the empty schema.
C19_Witness ==
    /\ last_call = "inferred"
    /\ pc = "idle"
    /\ list_files_cache = Some(<<>>)
    /\ outcome = Returned(EmptySchema)
====
